---- MODULE Spec2Model ----
(***************************************************************************)
(* Model of the chat component of advprog-module10-webchat                 *)
(* (src/src/components/chat.rs): the yew component Chat, its constructor   *)
(* create, its message handler update (HandleMsg, SubmitMessage), its view *)
(* and the helper generate_avatar_for_user.                                *)
(*                                                                         *)
(* Conventions                                                             *)
(*   Option<T>      None is <<>>, Some(x) is <<x>>.                        *)
(*   Result<T, E>   Ok(v) is [ok |-> TRUE, val |-> v], Err is              *)
(*                  [ok |-> FALSE]; unwrap of an Err panics.               *)
(*   String         a TLA+ string.                                         *)
(*   JSON frame     the document a frame's text denotes: a record of the   *)
(*                  three fields serde looks at, each a JSON value, or a   *)
(*                  text that is no JSON at all (wf = FALSE).              *)
(*   panic          the wasm build aborts on panic: the component handles  *)
(*                  no further event (phase = "panicked").                 *)
(***************************************************************************)
EXTENDS Integers, Sequences, FiniteSets, TLC

VARIABLES
    phase,       \* "new" before create, "running", or "panicked"
    username,    \* User.username of the session context
    users,       \* Chat.users    : Vec<UserProfile>
    messages,    \* Chat.messages : Vec<MessageData>
    chat_input,  \* Chat.chat_input : None until the <input> is rendered, Some(value)
    tx_closed,   \* the receiving end of wss.tx is gone
    tx_log,      \* every wss.tx.try_send call so far: [frame, ok]
    redraw,      \* a render is due: create's first render, or update returned true
    html,        \* what the last completed view call produced
    handled,     \* the frames delivered to update as Msg::HandleMsg, in order
    submits,     \* the number of Msg::SubmitMessage update has handled
    probe        \* one application of the codec or of the view to a drawn input

vars == <<phase, username, users, messages, chat_input, tx_closed, tx_log,
          redraw, html, handled, submits, probe>>

----------------------------------------------------------------------------
(* Bounds of the exploration *)

MaxFrames == 3      \* inbound frames handled in one session
MaxSubmits == 1     \* submit clicks in one session

Names == {"alice", "bob"}
Bodies == {"hello", "cat.gif"}
Texts == {"hi"}

----------------------------------------------------------------------------
(* Option and Result *)

None == <<>>
Some(x) == <<x>>

Ok(v) == [ok |-> TRUE, val |-> v]
Err == [ok |-> FALSE]

----------------------------------------------------------------------------
(* JSON values, as far as serde inspects them *)

JAbsent == [t |-> "absent", s |-> "", a |-> <<>>]
JNull == [t |-> "null", s |-> "", a |-> <<>>]
JNum == [t |-> "num", s |-> "", a |-> <<>>]
JStr(s) == [t |-> "str", s |-> s, a |-> <<>>]
JArr(a) == [t |-> "arr", s |-> "", a |-> a]

JObject(mt, da, d) == [wf |-> TRUE, messageType |-> mt, dataArray |-> da, data |-> d]
NotJson == [wf |-> FALSE, messageType |-> JAbsent, dataArray |-> JAbsent, data |-> JAbsent]

----------------------------------------------------------------------------
(* enum MsgTypes with #[serde(rename_all = "lowercase")] *)

MsgTypes == {"Users", "Register", "Message"}

MsgTypes_tag(kind) ==
    CASE kind = "Users" -> "users"
      [] kind = "Register" -> "register"
      [] kind = "Message" -> "message"

\* Deserialize for MsgTypes: the exact lowercase variant names, nothing else.
MsgTypes_from_tag(tag) ==
    IF \E k \in MsgTypes : MsgTypes_tag(k) = tag
    THEN Ok(CHOOSE k \in MsgTypes : MsgTypes_tag(k) = tag)
    ELSE Err

\* Deserialize for Option<T>: a missing field and null are None.
Option_from_json(v, type) ==
    IF v.t \in {"absent", "null"} THEN Ok(None)
    ELSE IF v.t # type THEN Err
    ELSE Ok(Some(IF type = "str" THEN v.s ELSE v.a))

WebSocketMessage(message_type, data_array, data) ==
    [message_type |-> message_type, data_array |-> data_array, data |-> data]

\* Variant of the serialisation that leaves out an empty list as it does None
to_string_skip_empty(msg) ==
    JObject(JStr(MsgTypes_tag(msg.message_type)),
            IF msg.data_array = None \/ msg.data_array = Some(<<>>)
            THEN JNull ELSE JArr(msg.data_array[1]),
            IF msg.data = None THEN JNull ELSE JStr(msg.data[1]))

\* serde_json::to_string(&WebSocketMessage), field names in camelCase, None as null
to_string(msg) ==
    JObject(JStr(MsgTypes_tag(msg.message_type)),
            IF msg.data_array = None THEN JNull ELSE JArr(msg.data_array[1]),
            IF msg.data = None THEN JNull ELSE JStr(msg.data[1]))

\* serde_json::from_str::<WebSocketMessage>
from_str_WebSocketMessage(s) ==
    IF ~s.wf THEN Err
    ELSE IF s.messageType.t # "str" THEN Err
    ELSE LET mt == MsgTypes_from_tag(s.messageType.s)
             da == Option_from_json(s.dataArray, "arr")
             d == Option_from_json(s.data, "str")
         IN IF mt.ok /\ da.ok /\ d.ok
            THEN Ok(WebSocketMessage(mt.val, da.val, d.val))
            ELSE Err

----------------------------------------------------------------------------
(* struct MessageData and the texts the server puts in data *)

MessageData(from, message) == [from |-> from, message |-> message]

\* The text {"from":"<from>","message":"<message>"}
MessageText(from, message) ==
    "{\"from\":\"" \o from \o "\",\"message\":\"" \o message \o "\"}"

\* The text {"message":"<message>"}: a JSON object without the from field
NoFromText(message) == "{\"message\":\"" \o message \o "\"}"

\* The JSON objects the texts of this model denote; any other text is no JSON object.
JsonTexts ==
    {[text |-> MessageText(f, m), from |-> JStr(f), message |-> JStr(m)] :
        f \in Names, m \in Bodies}
    \cup {[text |-> NoFromText(m), from |-> JAbsent, message |-> JStr(m)] : m \in Bodies}

\* serde_json::from_str::<MessageData>: both fields are required strings
from_str_MessageData(s) ==
    IF \E o \in JsonTexts : o.text = s
    THEN LET o == CHOOSE o \in JsonTexts : o.text = s
         IN IF o.from.t = "str" /\ o.message.t = "str"
            THEN Ok(MessageData(o.from.s, o.message.s))
            ELSE Err
    ELSE Err

----------------------------------------------------------------------------
(* struct UserProfile and the avatar helper *)

UserProfile(name, avatar) == [name |-> name, avatar |-> avatar]

generate_avatar_for_user(user_name) ==
    "https://robohash.org/" \o user_name \o ".png?set=set4"

\* Variant of the collection that walks the list from its end
collect_profiles_rev(users_from_message) ==
    [i \in 1..Len(users_from_message) |->
        LET u == users_from_message[Len(users_from_message) + 1 - i]
        IN UserProfile(u, generate_avatar_for_user(u))]

\* Variant of the collection that gives every entry the avatar of the first name
collect_profiles_one_avatar(users_from_message) ==
    [i \in 1..Len(users_from_message) |->
        UserProfile(users_from_message[i],
                    generate_avatar_for_user(users_from_message[1]))]

\* users_from_message.iter().map(|u| UserProfile {..}).collect()
collect_profiles(users_from_message) ==
    [i \in 1..Len(users_from_message) |->
        UserProfile(users_from_message[i],
                    generate_avatar_for_user(users_from_message[i]))]

----------------------------------------------------------------------------
(* view: the message list of the main pane and the sidebar *)

\* Variant of the suffix test that accepts the suffix anywhere in the string
ends_with_anywhere(s, suffix) ==
    \E i \in 1..(Len(s) - Len(suffix) + 1) : SubSeq(s, i, i + Len(suffix) - 1) = suffix

\* str::ends_with
ends_with(s, suffix) ==
    /\ Len(s) >= Len(suffix)
    /\ SubSeq(s, Len(s) - Len(suffix) + 1, Len(s)) = suffix

\* self.users.iter().find(|u| u.name == message.from)
find_user(us, from) ==
    IF \E i \in 1..Len(us) : us[i].name = from
    THEN Some(us[CHOOSE i \in 1..Len(us) :
                    /\ us[i].name = from
                    /\ \A j \in 1..(i - 1) : us[j].name # from])
    ELSE None

\* One entry of the message list; find(..).unwrap() is taken before it is built.
render_message(us, message) ==
    LET user == find_user(us, message.from)[1]
    IN [avatar |-> user.avatar,
        alt |-> user.name \o "'s avatar",
        from |-> message.from,
        tag |-> IF ends_with(message.message, ".gif") THEN "img" ELSE "p",
        body |-> message.message]

\* fn view: Err when some find(..).unwrap() panics
view(us, ms) ==
    IF \E i \in 1..Len(ms) : find_user(us, ms[i].from) = None
    THEN Err
    ELSE Ok([sidebar |-> us,
             list |-> [i \in 1..Len(ms) |-> render_message(us, ms[i])]])

NoHtml == [sidebar |-> <<>>, list |-> <<>>]

----------------------------------------------------------------------------
(* The outbound channel wss.tx *)

\* Sender::try_send: fails once the receiving end is gone
try_send(closed) == IF closed THEN Err ELSE Ok("unit")

----------------------------------------------------------------------------
(* Inbound frames the event bus delivers *)

Rosters == {<<"alice">>, <<"alice", "bob">>, <<"bob", "bob">>}

UsersFrames ==
    {JObject(JStr("users"), JArr(r), JNull) : r \in Rosters}
    \cup {JObject(JStr("users"), JNull, JNull),
          JObject(JStr("users"), JAbsent, JAbsent),
          JObject(JStr("users"), JNum, JNull)}

MessageFrames ==
    {JObject(JStr("message"), JNull, JStr(MessageText("alice", "hello"))),
     JObject(JStr("message"), JNull, JStr(MessageText("bob", "cat.gif")))}
    \cup {JObject(JStr("message"), JNull, JStr(NoFromText("hello"))),
          JObject(JStr("message"), JNull, JStr("hi")),
          JObject(JStr("message"), JNull, JNull)}

RegisterFrames ==
    {JObject(JStr("register"), JNull, JStr("alice")),
     JObject(JStr("register"), JArr(<<"bob">>), JNull)}

OtherFrames ==
    {NotJson,
     JObject(JStr("Users"), JArr(<<"alice">>), JNull),
     JObject(JStr("ping"), JNull, JNull),
     JObject(JAbsent, JNull, JStr("hi"))}

Frames == UsersFrames \cup MessageFrames \cup RegisterFrames \cup OtherFrames

----------------------------------------------------------------------------
(* State machine *)

\* No probe is under way
Idle == [pc |-> "idle", in |-> <<>>, mid |-> <<>>, out |-> <<>>]

\* The component before create
InitChat ==
    /\ phase = "new"
    /\ username \in Names
    /\ users = <<>>
    /\ messages = <<>>
    /\ chat_input = None
    /\ tx_closed = FALSE
    /\ tx_log = <<>>
    /\ redraw = FALSE
    /\ html = NoHtml
    /\ handled = <<>>
    /\ submits = 0

Init == InitChat /\ probe = Idle

\* The register envelope create builds
register_message(name) == WebSocketMessage("Register", None, Some(name))

\* Chat::create. WebsocketService::new() hands back the channel wss.tx; whether its
\* receiving end is still there when try_send runs is up to that service.
Create ==
    /\ phase = "new"
    /\ phase' = "running"
    /\ \E closed \in BOOLEAN :
        /\ tx_closed' = closed
        /\ tx_log' = Append(tx_log, [frame |-> to_string(register_message(username)),
                                     ok |-> try_send(closed).ok])
    /\ users' = <<>>
    /\ messages' = <<>>
    /\ chat_input' = None
    /\ redraw' = TRUE
    /\ UNCHANGED <<username, html, handled, submits, probe>>

\* Variant of the Users arm that extends the roster it had instead of replacing it
update_Users_extend(msg) ==
    /\ users' = users \o collect_profiles(IF msg.data_array = None THEN <<>>
                                           ELSE msg.data_array[1])
    /\ redraw' = TRUE
    /\ UNCHANGED <<phase, messages>>

\* Variant of the Users arm with unwrap() in place of unwrap_or_default()
update_Users_unwrap(msg) ==
    IF msg.data_array = None
    THEN /\ phase' = "panicked"
         /\ UNCHANGED <<users, messages, redraw>>
    ELSE /\ users' = collect_profiles(msg.data_array[1])
         /\ redraw' = TRUE
         /\ UNCHANGED <<phase, messages>>

\* Variant of the Users arm that returns false
update_Users_quiet(msg) ==
    /\ users' = collect_profiles(IF msg.data_array = None THEN <<>> ELSE msg.data_array[1])
    /\ redraw' = FALSE
    /\ UNCHANGED <<phase, messages>>

\* Variant of the Users arm that drops the logged messages of senders who left
update_Users_prune(msg) ==
    /\ users' = collect_profiles(IF msg.data_array = None THEN <<>> ELSE msg.data_array[1])
    /\ messages' = SelectSeq(messages, LAMBDA m :
                        \E i \in 1..Len(users') : users'[i].name = m.from)
    /\ redraw' = TRUE
    /\ UNCHANGED phase

\* MsgTypes::Users arm
update_Users(msg) ==
    /\ users' = collect_profiles(IF msg.data_array = None THEN <<>> ELSE msg.data_array[1])
    /\ redraw' = TRUE
    /\ UNCHANGED <<phase, messages>>

\* Variant of the Message arm that puts the new message first
update_Message_front(msg) ==
    IF msg.data = None \/ ~from_str_MessageData(msg.data[1]).ok
    THEN /\ phase' = "panicked"
         /\ UNCHANGED <<users, messages, redraw>>
    ELSE /\ messages' = <<from_str_MessageData(msg.data[1]).val>> \o messages
         /\ redraw' = TRUE
         /\ UNCHANGED <<phase, users>>

\* Variant of the Message arm that pushes and returns false
update_Message_quiet(msg) ==
    IF msg.data = None \/ ~from_str_MessageData(msg.data[1]).ok
    THEN /\ phase' = "panicked"
         /\ UNCHANGED <<users, messages, redraw>>
    ELSE /\ messages' = Append(messages, from_str_MessageData(msg.data[1]).val)
         /\ redraw' = FALSE
         /\ UNCHANGED <<phase, users>>

\* MsgTypes::Message arm: two unwraps, then push
update_Message(msg) ==
    IF msg.data = None \/ ~from_str_MessageData(msg.data[1]).ok
    THEN /\ phase' = "panicked"
         /\ UNCHANGED <<users, messages, redraw>>
    ELSE /\ messages' = Append(messages, from_str_MessageData(msg.data[1]).val)
         /\ redraw' = TRUE
         /\ UNCHANGED <<phase, users>>

\* Variant of the catch-all arm that enrols the registering user
update_other_enrol(msg) ==
    /\ users' = IF msg.data = None THEN users
                ELSE Append(users, UserProfile(msg.data[1],
                                               generate_avatar_for_user(msg.data[1])))
    /\ redraw' = (msg.data # None)
    /\ UNCHANGED <<phase, messages>>

\* the catch-all arm
update_other(msg) ==
    /\ redraw' = FALSE
    /\ UNCHANGED <<phase, users, messages>>

\* Chat::update, Msg::HandleMsg(s). The framework runs the render an update asked
\* for before it delivers the next message, hence ~redraw.
HandleMsg(s) ==
    /\ phase = "running"
    /\ ~redraw
    /\ Len(handled) < MaxFrames
    /\ handled' = Append(handled, s)
    /\ LET decoded == from_str_WebSocketMessage(s)
       IN IF ~decoded.ok
          THEN /\ phase' = "panicked"
               /\ UNCHANGED <<users, messages, redraw>>
          ELSE CASE decoded.val.message_type = "Users" -> update_Users(decoded.val)
                 [] decoded.val.message_type = "Message" -> update_Message(decoded.val)
                 [] OTHER -> update_other(decoded.val)
    /\ UNCHANGED <<username, chat_input, tx_closed, tx_log, html, submits, probe>>

\* Variant of the chat envelope tagged as the register envelope is
chat_message_as_register(value) == WebSocketMessage("Register", None, Some(value))

\* Variant of the chat envelope whose scalar is the JSON text {"message": value}
chat_message_wrapped(value) == WebSocketMessage("Message", None, Some(NoFromText(value)))

\* The chat envelope submit builds
chat_message(value) == WebSocketMessage("Message", None, Some(value))

\* Variant of submit that unwraps the result of try_send
SubmitMessage_unwrap ==
    /\ phase = "running"
    /\ ~redraw
    /\ submits < MaxSubmits
    /\ submits' = submits + 1
    /\ IF chat_input # None
       THEN /\ tx_log' = Append(tx_log, [frame |-> to_string(chat_message(chat_input[1])),
                                         ok |-> try_send(tx_closed).ok])
            /\ IF try_send(tx_closed).ok
               THEN chat_input' = Some("") /\ UNCHANGED phase
               ELSE phase' = "panicked" /\ UNCHANGED chat_input
       ELSE UNCHANGED <<tx_log, chat_input, phase>>
    /\ redraw' = FALSE
    /\ UNCHANGED <<username, users, messages, tx_closed, html, handled, probe>>

\* Variant of submit that also logs the sent text as the user's own message
SubmitMessage_echo ==
    /\ phase = "running"
    /\ ~redraw
    /\ submits < MaxSubmits
    /\ submits' = submits + 1
    /\ IF chat_input # None
       THEN /\ tx_log' = Append(tx_log, [frame |-> to_string(chat_message(chat_input[1])),
                                         ok |-> try_send(tx_closed).ok])
            /\ messages' = Append(messages, MessageData(username, chat_input[1]))
            /\ chat_input' = Some("")
            /\ redraw' = TRUE
       ELSE /\ redraw' = FALSE
            /\ UNCHANGED <<tx_log, chat_input, messages>>
    /\ UNCHANGED <<phase, username, users, tx_closed, html, handled, probe>>

\* Chat::update, Msg::SubmitMessage
SubmitMessage ==
    /\ phase = "running"
    /\ ~redraw
    /\ submits < MaxSubmits
    /\ submits' = submits + 1
    /\ IF chat_input # None
       THEN /\ tx_log' = Append(tx_log, [frame |-> to_string(chat_message(chat_input[1])),
                                         ok |-> try_send(tx_closed).ok])
            /\ chat_input' = Some("")
       ELSE UNCHANGED <<tx_log, chat_input>>
    /\ redraw' = FALSE
    /\ UNCHANGED <<phase, username, users, messages, tx_closed, html, handled, probe>>

\* The render yew runs after create and after an update that returned true
Render ==
    /\ phase = "running"
    /\ redraw
    /\ redraw' = FALSE
    /\ LET out == view(users, messages)
       IN IF out.ok
          THEN /\ html' = out.val
               /\ chat_input' = IF chat_input = None THEN Some("") ELSE chat_input
               /\ UNCHANGED phase
          ELSE /\ phase' = "panicked"
               /\ UNCHANGED <<html, chat_input>>
    /\ UNCHANGED <<username, users, messages, tx_closed, tx_log, handled, submits, probe>>

\* The user types into the rendered <input>
TypeInput(text) ==
    /\ phase = "running"
    /\ chat_input # None
    /\ chat_input[1] # text
    /\ submits < MaxSubmits
    /\ chat_input' = Some(text)
    /\ UNCHANGED <<phase, username, users, messages, tx_closed, tx_log, redraw,
                   html, handled, submits, probe>>

\* The task that owns the receiving end of wss.tx ends
CloseChannel ==
    /\ phase # "new"
    /\ ~tx_closed
    /\ tx_closed' = TRUE
    /\ UNCHANGED <<phase, username, users, messages, chat_input, tx_log, redraw,
                   html, handled, submits, probe>>

Next ==
    \/ Create
    \/ \E s \in Frames : HandleMsg(s)
    \/ SubmitMessage
    \/ Render
    \/ \E text \in Texts : TypeInput(text)
    \/ CloseChannel

Spec == Init /\ [][Next]_vars

----------------------------------------------------------------------------
(* The codec and the view applied to drawn inputs *)

ProbeLists ==
    {None, Some(<<>>), Some(<<"alice">>), Some(<<"alice", "bob">>), Some(<<"bob", "bob">>)}

ProbeScalars ==
    {None, Some(""), Some("hi"), Some("alice"), Some(MessageText("alice", "hello"))}

\* Every WebSocketMessage value that can be constructed from these payloads
Envelopes ==
    {WebSocketMessage(k, l, d) : k \in MsgTypes, l \in ProbeLists, d \in ProbeScalars}

ProbeBodies ==
    {"https://x.test/a.gif", "https://x.test/a.gif.txt", "cat.GIF", "a.gifs",
     ".gif", "gif", "hello", ""}

InitPure ==
    /\ InitChat
    /\ \/ \E e \in Envelopes :
            probe = [pc |-> "envelope", in |-> e, mid |-> <<>>, out |-> <<>>]
       \/ \E r \in Rosters, n \in Names, b \in ProbeBodies :
            probe = [pc |-> "message",
                     in |-> [users |-> collect_profiles(r), message |-> MessageData(n, b)],
                     mid |-> <<>>, out |-> <<>>]

\* serde_json::to_string(&message)
Encode ==
    /\ probe.pc = "envelope"
    /\ probe' = [probe EXCEPT !.pc = "text", !.mid = to_string(probe.in)]
    /\ UNCHANGED <<phase, username, users, messages, chat_input, tx_closed, tx_log,
                   redraw, html, handled, submits>>

\* serde_json::from_str(&s)
Decode ==
    /\ probe.pc = "text"
    /\ probe' = [probe EXCEPT !.pc = "decoded", !.out = from_str_WebSocketMessage(probe.mid)]
    /\ UNCHANGED <<phase, username, users, messages, chat_input, tx_closed, tx_log,
                   redraw, html, handled, submits>>

\* view, for a roster and a log of one message
Project ==
    /\ probe.pc = "message"
    /\ probe' = [probe EXCEPT !.pc = "projected",
                              !.out = view(probe.in.users, <<probe.in.message>>)]
    /\ UNCHANGED <<phase, username, users, messages, chat_input, tx_closed, tx_log,
                   redraw, html, handled, submits>>

NextPure == Encode \/ Decode \/ Project

SpecPure == InitPure /\ [][NextPure]_vars

----------------------------------------------------------------------------
(* Helpers of the properties *)

Last(q) == q[Len(q)]

IsPrefix(p, q) == Len(p) <= Len(q) /\ SubSeq(q, 1, Len(p)) = p

\* A step that delivered one more frame to update
Delivered == handled' # handled

\* The payload fields have a type Option<Vec<String>> / Option<String> accepts
PayloadTypesOk(f) ==
    /\ f.dataArray.t \in {"absent", "null", "arr"}
    /\ f.data.t \in {"absent", "null", "str"}

\* f is the text of an envelope of the kind with the given wire tag
IsEnvelope(f, tag) == f.wf /\ f.messageType = JStr(tag) /\ PayloadTypesOk(f)

\* s is a text of the shape {"from": .., "message": ..}
IsMessagePayload(s) == \E n \in Names, b \in Bodies : s = MessageText(n, b)

PayloadOf(s) ==
    LET p == CHOOSE p \in Names \X Bodies : s = MessageText(p[1], p[2])
    IN [from |-> p[1], message |-> p[2]]

\* f is a Message envelope whose scalar payload decodes
IsGoodMessage(f) ==
    IsEnvelope(f, "message") /\ f.data.t = "str" /\ IsMessagePayload(f.data.s)

\* The payloads of the Message envelopes of h that decode, in order of arrival
RECURSIVE DecodedLog(_)
DecodedLog(h) ==
    IF h = <<>> THEN <<>>
    ELSE LET rest == DecodedLog(SubSeq(h, 1, Len(h) - 1))
         IN IF IsGoodMessage(Last(h))
            THEN Append(rest, PayloadOf(Last(h).data.s))
            ELSE rest

UsersFrame(names) == JObject(JStr("users"), JArr(names), JNull)

----------------------------------------------------------------------------
(* Properties *)

\* C1: after a Users envelope whose list holds N names has been handled, the roster
\* is exactly those N names in wire order, each with the avatar of its own name,
\* whatever the roster was before; duplicate names stay separate entries.
C1_UsersReplacesRoster ==
    (handled # <<>> /\ IsEnvelope(Last(handled), "users")
                    /\ Last(handled).dataArray.t = "arr")
    => LET names == Last(handled).dataArray.a
       IN /\ Len(users) = Len(names)
          /\ \A i \in 1..Len(names) :
                /\ users[i].name = names[i]
                /\ users[i].avatar = generate_avatar_for_user(names[i])

C1_Witness ==
    /\ Len(handled) = 2
    /\ handled[1] = UsersFrame(<<"alice", "bob">>)
    /\ handled[2] = UsersFrame(<<"bob", "bob">>)
    /\ Len(users) = 2
    /\ users[1] = users[2]
    /\ users[1].name = "bob"

\* C2: the message log only grows at its end, and after every step it is the
\* sequence of the payloads of the handled Message envelopes that decoded, in
\* order of arrival.
C2_LogAppendOnly ==
    [][IsPrefix(messages, messages') /\ messages' = DecodedLog(handled')]_vars

C2_Witness ==
    /\ Len(handled) = 3
    /\ Len(messages) = 2
    /\ messages[1] = MessageData("alice", "hello")
    /\ messages[2] = MessageData("bob", "cat.gif")

\* C3: handling a Message envelope whose scalar payload does not decode as
\* {from, message} leaves the session running.
C3_MalformedPayloadNonFatal ==
    (handled # <<>> /\ IsEnvelope(Last(handled), "message")
                    /\ ~IsGoodMessage(Last(handled)))
    => phase = "running"

\* C4: handling a frame that is no JSON leaves the session running.
C4_MalformedEnvelopeNonFatal ==
    (handled # <<>> /\ ~Last(handled).wf) => phase = "running"

\* C5: in every state the view projection completes.
C5_ViewNeverAborts == view(users, messages).ok

\* C6: handling a frame whose messageType is none of users/register/message leaves
\* the session running with no redraw requested.
C6_UnknownKindNonFatal ==
    (handled # <<>> /\ Last(handled).wf
                    /\ Last(handled).messageType.t = "str"
                    /\ Last(handled).messageType.s \notin {"users", "register", "message"})
    => (phase = "running" /\ ~redraw)

\* C7: handling a Register envelope changes neither roster nor message log and
\* returns redraw = false.
C7_RegisterNoEffect ==
    [][(Delivered /\ IsEnvelope(Last(handled'), "register"))
       => (users' = users /\ messages' = messages /\ redraw' = FALSE
           /\ phase' = "running")]_vars

C7_Witness ==
    /\ Len(handled) = 3
    /\ IsEnvelope(Last(handled), "register")
    /\ Last(handled).data.t = "str"
    /\ users # <<>>
    /\ messages # <<>>
    /\ phase = "running"
    /\ ~redraw

\* C8: handling the Users envelope that was handled just before leaves the roster
\* as the first application made it.
C8_UsersReplayIdempotent ==
    [][(Delivered /\ handled # <<>> /\ Last(handled') = Last(handled)
                  /\ IsEnvelope(Last(handled), "users"))
       => users' = users]_vars

C8_Witness ==
    /\ Len(handled) = 3
    /\ handled[1] = UsersFrame(<<"alice">>)
    /\ handled[2] = UsersFrame(<<"bob", "bob">>)
    /\ handled[3] = handled[2]
    /\ Len(users) = 2

\* C9: handling a Users envelope whose dataArray is null or missing does not panic,
\* empties the roster and returns redraw = true.
C9_UsersWithoutListEmptiesRoster ==
    [][(Delivered /\ IsEnvelope(Last(handled'), "users")
                  /\ Last(handled').dataArray.t \in {"null", "absent"})
       => (phase' = "running" /\ users' = <<>> /\ redraw' = TRUE)]_vars

C9_Witness ==
    /\ Len(handled) = 2
    /\ handled[1] = UsersFrame(<<"alice", "bob">>)
    /\ IsEnvelope(handled[2], "users")
    /\ handled[2].dataArray.t = "absent"
    /\ users = <<>>
    /\ redraw
    /\ phase = "running"

\* C10: before create nothing has been sent; from create on, the first try_send is
\* the Register envelope with the session username, every later try_send is a
\* Message envelope, and no Message envelope reaches the channel unless the
\* Register envelope did.
C10_RegisterOnceAndFirst ==
    /\ phase = "new" => tx_log = <<>>
    /\ phase # "new" =>
        /\ Len(tx_log) >= 1
        /\ tx_log[1].frame = JObject(JStr("register"), JNull, JStr(username))
        /\ \A i \in 2..Len(tx_log) :
              /\ tx_log[i].frame.messageType = JStr("message")
              /\ tx_log[i].ok => tx_log[1].ok

C10_Witness ==
    /\ Len(tx_log) = 2
    /\ tx_log[1].ok
    /\ tx_log[2].ok
    /\ tx_log[2].frame.data = JStr("hi")

\* A step in which update handled Msg::SubmitMessage
Submitted == submits' # submits

\* The text of the chat envelope for the given input value
ChatFrame(value) == JObject(JStr("message"), JNull, JStr(value))

\* C11: a try_send that fails, in create or in submit, leaves roster and message
\* log as they were and the component running; and once a send has failed, the
\* only sends are those of later submits, each one envelope holding the input
\* value of that moment, so nothing is re-sent or queued.
C11_SendFailureNonFatal ==
    [][/\ (tx_log' # tx_log /\ ~Last(tx_log').ok)
          => (users' = users /\ messages' = messages /\ phase' = "running")
       /\ (tx_log' # tx_log /\ \E i \in 1..Len(tx_log) : ~tx_log[i].ok)
          => (/\ Submitted
              /\ chat_input # None
              /\ Len(tx_log') = Len(tx_log) + 1
              /\ IsPrefix(tx_log, tx_log')
              /\ Last(tx_log').frame = ChatFrame(chat_input[1]))
       /\ (~Submitted /\ phase # "new") => tx_log' = tx_log]_vars

C11_Witness ==
    /\ Len(tx_log) = 2
    /\ ~tx_log[1].ok
    /\ ~tx_log[2].ok
    /\ tx_log[2].frame = ChatFrame("hi")
    /\ users # <<>>
    /\ messages # <<>>
    /\ phase = "running"

\* C12: a submit whose send succeeds clears the input, and a submit whose send
\* fails leaves the input value as it was.
C12_InputClearedOnlyOnSuccess ==
    [][(Submitted /\ chat_input # None /\ tx_log' # tx_log)
       => chat_input' = IF Last(tx_log').ok THEN Some("") ELSE chat_input]_vars

MessageFrame(from, message) ==
    JObject(JStr("message"), JNull, JStr(MessageText(from, message)))

\* C13: update returns true for every Users envelope and for every Message envelope
\* whose payload decodes; and Users[alice, bob] followed by
\* Message{from: alice, message: hello}, from the empty state, gives
\* roster = [alice, bob] and messages = [(alice, hello)].
C13_RedrawOnUsersAndMessage ==
    [][/\ (Delivered /\ (\/ IsEnvelope(Last(handled'), "users")
                         \/ IsGoodMessage(Last(handled'))))
          => (redraw' = TRUE /\ phase' = "running")
       /\ handled' = <<UsersFrame(<<"alice", "bob">>), MessageFrame("alice", "hello")>>
          => (/\ users' = <<UserProfile("alice", generate_avatar_for_user("alice")),
                            UserProfile("bob", generate_avatar_for_user("bob"))>>
              /\ messages' = <<MessageData("alice", "hello")>>)]_vars

C13_Witness ==
    /\ handled = <<UsersFrame(<<"alice", "bob">>), MessageFrame("alice", "hello")>>
    /\ Len(users) = 2
    /\ Len(messages) = 1
    /\ redraw

\* C14: encoding an envelope gives the object with messageType the lowercase tag of
\* its kind, dataArray its list or null and data its scalar or null, and decoding
\* that text gives the envelope back.
C14_CodecRoundTrip ==
    /\ probe.pc \in {"text", "decoded"} =>
        /\ probe.mid.wf
        /\ probe.mid.messageType =
              JStr(CASE probe.in.message_type = "Users" -> "users"
                     [] probe.in.message_type = "Register" -> "register"
                     [] probe.in.message_type = "Message" -> "message")
        /\ probe.mid.dataArray =
              (IF probe.in.data_array = None THEN JNull ELSE JArr(probe.in.data_array[1]))
        /\ probe.mid.data =
              (IF probe.in.data = None THEN JNull ELSE JStr(probe.in.data[1]))
    /\ probe.pc = "decoded" => (probe.out.ok /\ probe.out.val = probe.in)

C14_Witness ==
    /\ probe.pc = "decoded"
    /\ probe.in = WebSocketMessage("Users", Some(<<>>), Some("hi"))
    /\ probe.out.ok

\* C15: every submit calls try_send once, with the Message envelope whose data is
\* the input value as it stands and whose dataArray is null.
C15_SubmitSendsRawInput ==
    [][Submitted
       => (/\ chat_input # None
           /\ Len(tx_log') = Len(tx_log) + 1
           /\ IsPrefix(tx_log, tx_log')
           /\ Last(tx_log').frame = ChatFrame(chat_input[1]))]_vars

C15_Witness ==
    /\ submits = 1
    /\ Len(tx_log) = 2
    /\ tx_log[2].frame = ChatFrame("hi")
    /\ chat_input = Some("")

\* The bodies among ProbeBodies whose last four characters are .gif
ImageBodies == {"https://x.test/a.gif", ".gif"}

\* C16: a message is rendered as an image exactly when its body ends in the
\* literal .gif, and as text, body unchanged, otherwise.
C16_GifSuffixOnly ==
    (probe.pc = "projected" /\ probe.out.ok)
    => /\ Len(probe.out.val.list) = 1
       /\ probe.out.val.list[1].body = probe.in.message.message
       /\ probe.out.val.list[1].tag
             = (IF probe.in.message.message \in ImageBodies THEN "img" ELSE "p")

C16_Witness ==
    /\ probe.pc = "projected"
    /\ probe.out.ok
    /\ probe.in.message.message = "https://x.test/a.gif.txt"
    /\ probe.out.val.list[1].tag = "p"

\* C17: every roster entry carries the avatar of its own name, so entries with the
\* same name carry the same avatar.
C17_AvatarOfOwnName ==
    /\ \A i \in 1..Len(users) :
          users[i].avatar = generate_avatar_for_user(users[i].name)
    /\ \A i, j \in 1..Len(users) :
          users[i].name = users[j].name => users[i].avatar = users[j].avatar

C17_Witness ==
    /\ Len(users) = 2
    /\ users[1].name = "alice"
    /\ users[2].name = "bob"
    /\ users[1].avatar = "https://robohash.org/alice.png?set=set4"
    /\ users[2].avatar = "https://robohash.org/bob.png?set=set4"

\* C18: an update (inbound frame or submit) that returns false leaves roster and
\* message log as they were; a step that changes either of them asks for a redraw;
\* and while the component runs with no redraw due, what is rendered is the view
\* of the current roster and log.
C18_NoRedrawNoChange ==
    [][/\ ((Delivered \/ Submitted) /\ ~redraw')
          => (users' = users /\ messages' = messages)
       /\ (users' # users \/ messages' # messages) => redraw'
       /\ (phase' = "running" /\ ~redraw')
          => (view(users', messages').ok /\ html' = view(users', messages').val)]_vars

C18_Witness ==
    /\ submits = 1
    /\ Len(handled) = 3
    /\ IsEnvelope(Last(handled), "register")
    /\ ~redraw
    /\ phase = "running"
    /\ Len(users) = 2
    /\ Len(messages) = 1
    /\ html = view(users, messages).val

\* C19: handling a frame tagged message leaves the roster as it was, whether its
\* payload decodes or not, and handling a Users envelope leaves the message log
\* as it was, also when the new roster lacks the sender of a logged message.
C19_ArmsTouchOwnField ==
    [][/\ (Delivered /\ Last(handled').wf /\ Last(handled').messageType = JStr("message"))
          => users' = users
       /\ (Delivered /\ IsEnvelope(Last(handled'), "users"))
          => messages' = messages]_vars

C19_Witness ==
    /\ handled = <<UsersFrame(<<"alice">>), MessageFrame("alice", "hello"),
                   UsersFrame(<<"bob", "bob">>)>>
    /\ messages = <<MessageData("alice", "hello")>>
    /\ Len(users) = 2
    /\ find_user(users, "alice") = None

\* C20: a submit changes neither roster nor message log and returns false, whether
\* its send succeeds or fails, and sends nothing when there is no input element;
\* the log holds only what arrived in inbound Message envelopes.
C20_SubmitNoLocalEffect ==
    [][/\ Submitted
          => (/\ users' = users
              /\ messages' = messages
              /\ redraw' = FALSE
              /\ phase' = phase
              /\ chat_input = None => tx_log' = tx_log)
       /\ messages' = DecodedLog(handled')]_vars

C20_Witness ==
    /\ submits = 1
    /\ tx_log[2].ok
    /\ tx_log[2].frame = ChatFrame("hi")
    /\ messages = <<>>
    /\ handled = <<>>
    /\ ~redraw

====
